---------------------------- MODULE Spec2Model ----------------------------
(***************************************************************************)
(* verctrl: file-level version backups (src/verctrl.py).                   *)
(*                                                                         *)
(* File names are sequences of one-character strings, so that the name     *)
(* construction of get_backup_name, the glob and regular-expression scans  *)
(* of the backup directory and the substring test of restore_backup are    *)
(* computed on characters, as the program computes them.                   *)
(***************************************************************************)
EXTENDS Integers, Sequences, FiniteSets, TLC

(***************************************************************************)
(* Bounds of the model.                                                    *)
(***************************************************************************)
\* Largest modification time (in clock ticks) a behaviour reaches.
MaxTime == 2
\* Largest number of create_backup runs in a behaviour.
MaxRuns == 2
\* Largest number of tracked files in the configuration.
MaxFiles == 2
\* Largest number of file operations (copy2, unlink) that fail in a behaviour.
MaxFaults == 1

\* Ticks of the modification-time clock per second of the wall clock:
\* st_mtime is finer than the second resolution of strftime("%Y%m%d-%H%M%S").
TicksPerSec == 2

(***************************************************************************)
(* Characters and strings.                                                 *)
(***************************************************************************)
\* The characters that occur in names, in code-point order (as sorted() and
\* character ranges of fnmatch compare them).
Alphabet == <<"!", "#", "*", "-", ".", "/", "0", "1", "2", "3", "4", "5",
              "6", "7", "8", "9", "?", "A", "B", "C", "D", "E", "F", "G",
              "H", "I", "J", "K", "L", "M", "N", "O", "P", "Q", "R", "S",
              "T", "U", "V", "W", "X", "Y", "Z", "[", "]", "_", "a", "b",
              "c", "d", "e", "f", "g", "h", "i", "j", "k", "l", "m", "n",
              "o", "p", "q", "r", "s", "t", "u", "v", "w", "x", "y", "z",
              "~">>

Ord(c) == CHOOSE i \in 1..Len(Alphabet) : Alphabet[i] = c

Digits == <<"0", "1", "2", "3", "4", "5", "6", "7", "8", "9">>

IsDigit(c) == \E i \in 1..10 : Digits[i] = c

DigitVal(c) == (CHOOSE i \in 1..10 : Digits[i] = c) - 1

\* str(n) for n >= 0
RECURSIVE IntToStr(_)
IntToStr(n) ==
    IF n < 10 THEN <<Digits[n + 1]>>
    ELSE IntToStr(n \div 10) \o <<Digits[(n % 10) + 1]>>

\* int(s) for a non-empty string of digits
RECURSIVE StrToInt(_)
StrToInt(s) ==
    IF Len(s) = 1 THEN DigitVal(s[1])
    ELSE 10 * StrToInt(SubSeq(s, 1, Len(s) - 1)) + DigitVal(s[Len(s)])

UpperCase == <<"A", "B", "C", "D", "E", "F", "G", "H", "I", "J", "K", "L",
              "M", "N", "O", "P", "Q", "R", "S", "T", "U", "V", "W", "X",
              "Y", "Z">>

LowerCase == <<"a", "b", "c", "d", "e", "f", "g", "h", "i", "j", "k", "l",
              "m", "n", "o", "p", "q", "r", "s", "t", "u", "v", "w", "x",
              "y", "z">>

\* str.lower()
Lower(s) ==
    [i \in 1..Len(s) |->
        IF \E k \in 1..Len(UpperCase) : UpperCase[k] = s[i]
        THEN LowerCase[CHOOSE k \in 1..Len(UpperCase) : UpperCase[k] = s[i]]
        ELSE s[i]]

\* s[i:] of Python, i counted from 1
Drop(s, i) == SubSeq(s, i, Len(s))

StartsWith(s, p) == Len(p) <= Len(s) /\ SubSeq(s, 1, Len(p)) = p

\* p in s (substring test of Python)
Contains(s, p) ==
    \E i \in 1..(Len(s) - Len(p) + 1) : SubSeq(s, i, i + Len(p) - 1) = p

\* str.rfind(c), counted from 1; 0 when c does not occur
LastIndexOf(s, c) ==
    IF \E i \in 1..Len(s) : s[i] = c
    THEN CHOOSE i \in 1..Len(s) : s[i] = c /\ \A j \in (i + 1)..Len(s) : s[j] # c
    ELSE 0

\* s < t in code-point order (str.__lt__)
RECURSIVE StrLess(_, _)
StrLess(s, t) ==
    IF t = <<>> THEN FALSE
    ELSE IF s = <<>> THEN TRUE
    ELSE IF s[1] # t[1] THEN Ord(s[1]) < Ord(t[1])
    ELSE StrLess(Tail(s), Tail(t))

\* sorted(S) for a set S of strings
RECURSIVE Sorted(_)
Sorted(S) ==
    IF S = {} THEN <<>>
    ELSE LET m == CHOOSE x \in S : \A y \in S \ {x} : StrLess(x, y)
         IN <<m>> \o Sorted(S \ {m})

(***************************************************************************)
(* pathlib: Path.name, Path.stem, Path.suffix.                             *)
(***************************************************************************)
PathName(p) == Drop(p, LastIndexOf(p, "/") + 1)

\* The suffix starts at the last dot of the name, unless that dot is the
\* first or the last character of the name.
SuffixAt(p) ==
    LET n == PathName(p)
        i == LastIndexOf(n, ".")
    IN IF 1 < i /\ i < Len(n) THEN i ELSE Len(n) + 1

Stem(p) == SubSeq(PathName(p), 1, SuffixAt(p) - 1)

Suffix(p) == Drop(PathName(p), SuffixAt(p))

(***************************************************************************)
(* fnmatch, as Path.glob applies it to the names of one directory.         *)
(***************************************************************************)
\* The position of the "]" that closes the character class opened at
\* pat[i] = "[", or 0 when the class is not closed (fnmatch.translate: a
\* leading "!" and a "]" right after it belong to the class).
ClassEnd(pat, i) ==
    LET j1 == IF i + 1 <= Len(pat) /\ pat[i + 1] = "!" THEN i + 2 ELSE i + 1
        j2 == IF j1 <= Len(pat) /\ pat[j1] = "]" THEN j1 + 1 ELSE j1
    IN IF \E j \in j2..Len(pat) : pat[j] = "]"
       THEN CHOOSE j \in j2..Len(pat) :
                pat[j] = "]" /\ \A h \in j2..(j - 1) : pat[h] # "]"
       ELSE 0

\* Whether character c is in the class body `stuff` (without brackets and
\* without the leading "!"): single characters and ranges x-y.
RECURSIVE InClass(_, _)
InClass(stuff, c) ==
    IF stuff = <<>> THEN FALSE
    ELSE IF Len(stuff) >= 3 /\ stuff[2] = "-"
         THEN (Ord(stuff[1]) <= Ord(c) /\ Ord(c) <= Ord(stuff[3]))
              \/ InClass(Drop(stuff, 4), c)
         ELSE stuff[1] = c \/ InClass(Tail(stuff), c)

\* fnmatch.fnmatchcase(s, pat): the whole of s matches pat.
RECURSIVE FnMatch(_, _)
FnMatch(s, pat) ==
    IF pat = <<>> THEN s = <<>>
    ELSE IF pat[1] = "*"
         THEN FnMatch(s, Tail(pat)) \/ (s # <<>> /\ FnMatch(Tail(s), pat))
    ELSE IF pat[1] = "?"
         THEN s # <<>> /\ FnMatch(Tail(s), Tail(pat))
    ELSE IF pat[1] = "[" /\ ClassEnd(pat, 1) # 0
         THEN LET e == ClassEnd(pat, 1)
                  neg == pat[2] = "!"
                  stuff == SubSeq(pat, IF neg THEN 3 ELSE 2, e - 1)
              IN s # <<>>
                 /\ (InClass(stuff, s[1]) # neg)
                 /\ FnMatch(Tail(s), Drop(pat, e + 1))
    ELSE s # <<>> /\ s[1] = pat[1] /\ FnMatch(Tail(s), Tail(pat))


(***************************************************************************)
(* The files of the working directory that may be tracked, and the names   *)
(* get_backup_name can give their artifacts.                               *)
(***************************************************************************)
Paths == { <<"a">>,
           <<"a", ".", "t">>,
           <<"d", "/", "a", ".", "t">> }

\* Files whose stem holds characters that glob reads as a pattern, and the
\* file whose artifacts those patterns match.
SpecialPaths == { <<"a", "[", "1", "]", ".", "t">>,
                  <<"a", "1", ".", "t">> }

\* Every file the config may list.
Trackable == Paths \cup SpecialPaths

Schemes == {"version", "timestamp", "simple"}

\* A naming_scheme value of the config that is none of the three schemes.
Bogus == "bogus"

\* The wall-clock second of clock tick t.
SecondOf(t) == t \div TicksPerSec

\* datetime.now().strftime("%Y%m%d-%H%M%S"): the behaviours of the model
\* lie within one minute, so only the seconds field varies.
Timestamp(sec) ==
    <<"2", "0", "2", "4", "0", "1", "0", "1", "-", "0", "0", "0", "0">>
    \o (IF sec < 10 THEN <<"0">> ELSE <<>>) \o IntToStr(sec)

\* f"{filepath.stem}-{tag}{filepath.suffix}"
Artifact(p, tag) == Stem(p) \o <<"-">> \o tag \o Suffix(p)

\* Every copy adds at most one version number to the directory.
MaxVer == MaxRuns * MaxFiles

AllNames ==
    { Artifact(p, <<"v">> \o IntToStr(n)) : p \in Trackable, n \in 1..(MaxVer + 1) }
    \cup { Artifact(p, <<"o", "l", "d">>) : p \in Trackable }
    \cup { Artifact(p, Timestamp(s)) : p \in Trackable, s \in 0..SecondOf(MaxTime) }

(***************************************************************************)
(* Directory enumeration.  os.scandir gives the entries of a directory in  *)
(* an order the file system chooses.  The model draws the order from the   *)
(* rotations of the sorted listing and their reversals: every entry comes  *)
(* first in one of them and last in another.                               *)
(***************************************************************************)
Reverse(s) == [i \in 1..Len(s) |-> s[Len(s) + 1 - i]]

Rotate(s, r) == [i \in 1..Len(s) |-> s[((i + r - 1) % Len(s)) + 1]]

\* The place of each artifact name in the sorted listing of all of them.
NameRank ==
    LET all == Sorted(AllNames)
    IN [n \in AllNames |-> CHOOSE i \in 1..Len(all) : all[i] = n]

\* Sorted(names), for artifact names
RECURSIVE SortedNames(_)
SortedNames(names) ==
    IF names = {} THEN <<>>
    ELSE LET m == CHOOSE x \in names : \A y \in names : NameRank[x] <= NameRank[y]
         IN <<m>> \o SortedNames(names \ {m})

Enumerations(names) ==
    IF names = {} THEN {<<>>}
    ELSE LET s == SortedNames(names)
         IN { Rotate(s, r) : r \in 0..(Len(s) - 1) }
            \cup { Reverse(Rotate(s, r)) : r \in 0..(Len(s) - 1) }

(***************************************************************************)
(* get_backup_name                                                         *)
(***************************************************************************)
\* f"{filepath.stem}-v*{filepath.suffix}"
VersionPattern(p) == Stem(p) \o <<"-", "v", "*">> \o Suffix(p)

\* re.compile(rf"{re.escape(stem)}-v(\d+){re.escape(suffix)}").match(name):
\* the digits of group 1, or <<>> when the name does not match.  match()
\* anchors the pattern at the start of the name only; \d+ is greedy and
\* gives digits back until the suffix follows.
VersionMatch(name, p) ==
    LET pre == Stem(p) \o <<"-", "v">>
        rest == Drop(name, Len(pre) + 1)
        ok == { d \in 1..Len(rest) :
                   /\ \A i \in 1..d : IsDigit(rest[i])
                   /\ StartsWith(Drop(rest, d + 1), Suffix(p)) }
    IN IF StartsWith(name, pre) /\ ok # {}
       THEN SubSeq(rest, 1, CHOOSE d \in ok : \A e \in ok : e <= d)
       ELSE <<>>

\* For each tracked file and artifact name: the version number the scan of
\* get_backup_name reads from the name (the name matches the glob and the
\* regular expression), or -1.
ScannedVersion ==
    [p \in Trackable |-> [n \in AllNames |->
        IF FnMatch(n, VersionPattern(p)) /\ VersionMatch(n, p) # <<>>
        THEN StrToInt(VersionMatch(n, p)) ELSE -1]]

\* The list `versions`, for the directory enumerated as `listing`.
VersionList(p, listing) ==
    LET hit(n) == ScannedVersion[p][n] >= 0
        found == SelectSeq(listing, hit)
    IN [i \in 1..Len(found) |-> ScannedVersion[p][found[i]]]

\* A numbering by count: len(versions) + 1.
NextVersionByCount(versions) == Len(versions) + 1

\* max(versions, default=0) + 1
NextVersion(versions) ==
    IF versions = <<>> THEN 1
    ELSE 1 + CHOOSE x \in { versions[i] : i \in 1..Len(versions) } :
                 \A i \in 1..Len(versions) : versions[i] <= x

\* get_backup_name for one of the three schemes, with the backup directory
\* enumerated as `listing`, at wall-clock second `sec`.
GetBackupName(p, listing, scheme, sec) ==
    CASE scheme = "version" ->
             Artifact(p, <<"v">> \o IntToStr(NextVersion(VersionList(p, listing))))
      [] scheme = "timestamp" -> Artifact(p, Timestamp(sec))
      [] scheme = "simple" -> Artifact(p, <<"o", "l", "d">>)

(***************************************************************************)
(* Files.  A file is its content and its modification time; a content is   *)
(* the text some edit wrote (who wrote it and when), whole or torn by a    *)
(* copy that failed part-way, or the empty text.                           *)
(***************************************************************************)
Empty == [by |-> <<>>, at |-> 0, whole |-> TRUE]

Written(p, t) == [by |-> p, at |-> t, whole |-> TRUE]

Torn(c) == IF c = Empty THEN Empty ELSE [c EXCEPT !.whole = FALSE]

Missing == [c |-> Empty, m |-> -1]

Exists(f) == f # Missing

\* The artifact a copy of file f of path p makes: content and modification
\* time are those of f (copy2 copies the metadata); `src` remembers which
\* tracked file it was copied from.
CopyOf(f, p) == [c |-> f.c, m |-> f.m, src |-> p]

VARIABLES
    cfg,    \* verctrl.json: files, naming_scheme, keep_history, create_new_file
    fs,     \* the working directory: path -> file, or Missing
    dir,    \* the backup directory: artifact name -> file, for the names present
    now,    \* the clock, in ticks
    runs,   \* create_backup runs so far
    faults, \* file operations that failed so far
    made,   \* the copies the last create_backup run made: file, name, content
    tree,   \* the files under the root that detection walks
    gitignore, \* the lines of the root's .gitignore
    last    \* the last command and what it did, until the files change again

vars == <<cfg, fs, dir, now, runs, faults, made, tree, gitignore, last>>

Range(s) == { s[i] : i \in 1..Len(s) }

\* d with name n removed
Without(d, gone) == [n \in (DOMAIN d) \ gone |-> d[n]]

\* d with file f written under name n
With(d, n, f) == [m \in (DOMAIN d) \cup {n} |-> IF m = n THEN f ELSE d[m]]

(***************************************************************************)
(* create_backup: the loop over the tracked files.                         *)
(***************************************************************************)
\* What shutil.copy2 can do: copy content and modification time ("ok"),
\* raise before it writes ("denied"), or raise after it opened the
\* destination for writing ("torn": the artifact holds part of the content
\* and the time of the write).
CopyOutcomes == {"ok", "denied", "torn"}

Event(kind, p, name, present, c) ==
    [kind |-> kind, file |-> p, name |-> name, present |-> present, c |-> c]

\* The state of a run after `filepath.write_text('')`, when the config asks
\* for it, at time wt.
Truncate(acc, p, c, wt) ==
    IF c.create_new_file
    THEN [acc EXCEPT !.fs[p] = [c |-> Empty, m |-> wt],
                     !.wrote = TRUE,
                     !.events = Append(@, Event("truncated", p, <<>>, {}, Empty))]
    ELSE acc

\* The try block with the truncation moved after it: the file is emptied
\* whether its copy succeeded or not.
CopyFileThenTruncate(acc, p, name, how, c, wt) ==
    LET src == acc.fs[p]
        present == DOMAIN acc.dir
    IN CASE how = "ok" ->
              Truncate([acc EXCEPT
                           !.dir = With(@, name, CopyOf(src, p)),
                           !.count = @ + 1,
                           !.events = Append(@, Event("copied", p, name, present, src.c))],
                       p, c, wt)
         [] OTHER ->
              Truncate([acc EXCEPT
                           !.faults = @ + 1,
                           !.events = Append(@, Event("failed", p, name, present, src.c))],
                       p, c, wt)

\* The body of the try block for an existing file p whose artifact is to be
\* called `name`, with copy2 ending as `how`.
CopyFile(acc, p, name, how, c, wt) ==
    LET src == acc.fs[p]
        present == DOMAIN acc.dir
    IN CASE how = "ok" ->
              Truncate([acc EXCEPT
                           !.dir = With(@, name, CopyOf(src, p)),
                           !.count = @ + 1,
                           !.events = Append(@, Event("copied", p, name, present, src.c))],
                       p, c, wt)
         [] how = "denied" ->
              [acc EXCEPT !.faults = @ + 1,
                          !.events = Append(@, Event("failed", p, name, present, src.c))]
         [] how = "torn" ->
              [acc EXCEPT
                  !.dir = With(@, name, [c |-> Torn(src.c), m |-> wt, src |-> p]),
                  !.wrote = TRUE,
                  !.faults = @ + 1,
                  !.events = Append(@, Event("failed", p, name, present, src.c))]

\* The iteration with an unknown scheme raising an exception that the
\* handler of the loop catches, as it catches a failed copy.
CopyStepCatchesUnknown(acc, p, c, t) ==
    IF ~Exists(acc.fs[p])
    THEN { [acc EXCEPT !.events = Append(@, Event("missing", p, <<>>, {}, Empty))] }
    ELSE IF c.naming_scheme \notin Schemes
    THEN { [acc EXCEPT !.events = Append(@, Event("failed", p, <<>>, {}, Empty))] }
    ELSE { CopyFile(acc, p,
                    GetBackupName(p, listing, c.naming_scheme, SecondOf(t)),
                    how, c, t + 1) :
             listing \in Enumerations(DOMAIN acc.dir),
             how \in IF acc.faults < MaxFaults THEN CopyOutcomes ELSE {"ok"} }

\* The iteration with a missing file ending the run instead of being
\* skipped.
CopyStepStopsAtMissing(acc, p, c, t) ==
    IF ~Exists(acc.fs[p])
    THEN { [acc EXCEPT !.exit = 1,
                       !.events = Append(@, Event("missing", p, <<>>, {}, Empty))] }
    ELSE IF c.naming_scheme \notin Schemes
    THEN { [acc EXCEPT !.exit = 1,
                       !.events = Append(@, Event("fatal", p, <<>>, {}, Empty))] }
    ELSE { CopyFile(acc, p,
                    GetBackupName(p, listing, c.naming_scheme, SecondOf(t)),
                    how, c, t + 1) :
             listing \in Enumerations(DOMAIN acc.dir),
             how \in IF acc.faults < MaxFaults THEN CopyOutcomes ELSE {"ok"} }

\* One iteration of the loop: the states it can end in.
CopyStep(acc, p, c, t) ==
    IF ~Exists(acc.fs[p])
    THEN { [acc EXCEPT !.events = Append(@, Event("missing", p, <<>>, {}, Empty))] }
    ELSE IF c.naming_scheme \notin Schemes
    THEN { [acc EXCEPT !.exit = 1,
                       !.events = Append(@, Event("fatal", p, <<>>, {}, Empty))] }
    ELSE { CopyFile(acc, p,
                    GetBackupName(p, listing, c.naming_scheme, SecondOf(t)),
                    how, c, t + 1) :
             listing \in Enumerations(DOMAIN acc.dir),
             how \in IF acc.faults < MaxFaults THEN CopyOutcomes ELSE {"ok"} }

\* The loop from the i-th tracked file on; sys.exit ends it.
RECURSIVE CopyLoop(_, _, _, _)
CopyLoop(acc, i, c, t) ==
    IF i > Len(c.files) \/ acc.exit # 0 THEN {acc}
    ELSE UNION { CopyLoop(a, i + 1, c, t) : a \in CopyStep(acc, c.files[i], c, t) }

(***************************************************************************)
(* cleanup_old_backups                                                     *)
(***************************************************************************)
\* f"{filepath.stem}-*{filepath.suffix}"
FamilyPattern(p) == Stem(p) \o <<"-", "*">> \o Suffix(p)

\* For each tracked file: the artifact names the pattern matches.
Matching == [p \in Trackable |-> { n \in AllNames : FnMatch(n, FamilyPattern(p)) }]

\* backup_dir.glob(pattern), as a set
Family(p, names) == names \cap Matching[p]

\* The sort without reverse=True: oldest first.
RECURSIVE SortOldestFirst(_, _)
SortOldestFirst(listing, d) ==
    IF listing = <<>> THEN <<>>
    ELSE LET n == Len(listing)
             x == listing[n]
             front == SortOldestFirst(SubSeq(listing, 1, n - 1), d)
             k == Cardinality({ i \in 1..Len(front) : d[front[i]].m <= d[x].m })
         IN SubSeq(front, 1, k) \o <<x>> \o SubSeq(front, k + 1, Len(front))

\* sorted(listing, key=mtime, reverse=True): the sort is stable, names of
\* equal time stay in the order of the listing.
RECURSIVE SortNewestFirst(_, _)
SortNewestFirst(listing, d) ==
    IF listing = <<>> THEN <<>>
    ELSE LET n == Len(listing)
             x == listing[n]
             front == SortNewestFirst(SubSeq(listing, 1, n - 1), d)
             k == Cardinality({ i \in 1..Len(front) : d[front[i]].m >= d[x].m })
         IN SubSeq(front, 1, k) \o <<x>> \o SubSeq(front, k + 1, Len(front))

\* backups[keep:], a slice of Python: a negative keep counts from the end.
Beyond(backups, keep) ==
    LET n == Len(backups)
        from == IF keep >= 0 THEN keep ELSE IF n + keep > 0 THEN n + keep ELSE 0
    IN SubSeq(backups, from + 1, n)

\* The unlink loop with the try around the whole loop: the first unlink that
\* raises ends the pass.
UnlinkUntilFailure(acc, p, backups, keep, failed) ==
    LET beyond == Beyond(backups, keep)
        stop == { i \in 1..Len(beyond) : beyond[i] \in failed }
        done == IF stop = {} THEN Range(beyond)
                ELSE { beyond[i] : i \in 1..((CHOOSE i \in stop : \A j \in stop : i <= j) - 1) }
    IN [dir |-> Without(acc.dir, done),
        faults |-> acc.faults + Cardinality(failed),
        rot |-> Append(acc.rot,
                       [file |-> p,
                        present |-> DOMAIN acc.dir,
                        backups |-> [i \in 1..Len(backups) |->
                                       [n |-> backups[i], m |-> acc.dir[backups[i]].m,
                                        src |-> acc.dir[backups[i]].src]],
                        removed |-> done,
                        failed |-> failed])]

\* The unlink loop over backups[keep_history:]; the unlinks of `failed` raise.
Unlink(acc, p, backups, keep, failed) ==
    LET old == Range(Beyond(backups, keep))
    IN [dir |-> Without(acc.dir, old \ failed),
        faults |-> acc.faults + Cardinality(failed),
        rot |-> Append(acc.rot,
                       [file |-> p,
                        present |-> DOMAIN acc.dir,
                        backups |-> [i \in 1..Len(backups) |->
                                       [n |-> backups[i], m |-> acc.dir[backups[i]].m,
                                        src |-> acc.dir[backups[i]].src]],
                        removed |-> old \ failed,
                        failed |-> failed])]

\* One iteration of the loop over the tracked files: the states it can end
\* in, for every enumeration of the directory and every set of unlinks that
\* raise.
CleanupStep(acc, p, keep) ==
    UNION { LET backups == SortNewestFirst(listing, acc.dir)
            IN { Unlink(acc, p, backups, keep, failed) :
                   failed \in { F \in SUBSET Range(Beyond(backups, keep)) :
                                  acc.faults + Cardinality(F) <= MaxFaults } } :
            listing \in Enumerations(Family(p, DOMAIN acc.dir)) }

RECURSIVE CleanupLoop(_, _, _)
CleanupLoop(acc, i, c) ==
    IF i > Len(c.files) THEN {acc}
    ELSE UNION { CleanupLoop(a, i + 1, c) : a \in CleanupStep(acc, c.files[i], c.keep_history) }

\* cleanup_old_backups without its early return.
CleanupAlways(d, c, nf) ==
    CleanupLoop([dir |-> d, faults |-> nf, rot |-> <<>>], 1, c)

\* cleanup_old_backups: the directories and logs it can end with.
CleanupOldBackups(d, c, nf) ==
    IF c.keep_history <= 0 THEN { [dir |-> d, faults |-> nf, rot |-> <<>>] }
    ELSE CleanupLoop([dir |-> d, faults |-> nf, rot |-> <<>>], 1, c)

(***************************************************************************)
(* The commands.                                                           *)
(***************************************************************************)
KeepChoices == {-1, 0, 1, 2}

\* The state of the config file when there is none (config_path.exists()
\* is false).
NoConfig == [exists |-> FALSE]

\* VerCtrl.DEFAULT_CONFIG; backup_dir is the same in every config.
DEFAULT_CONFIG ==
    [files |-> <<>>, naming_scheme |-> "version", keep_history |-> 5,
     create_new_file |-> FALSE]

\* load_config: without a config file the command ends with an error
\* message before it does anything.
LoadConfig == cfg # NoConfig

\* What the user types at a prompt that asks (y/N).
Answers == {<<"y">>, <<"Y">>, <<"n">>}

\* No prompt was shown.
NoAnswer == <<>>

\* response.lower() != 'y'
Declines(response) == Lower(response) # <<"y">>

Configs ==
    { [files |-> Sorted(S), naming_scheme |-> sch, keep_history |-> k,
       create_new_file |-> cnf] :
        S \in { T \in SUBSET Paths : Cardinality(T) <= MaxFiles },
        sch \in Schemes \cup {Bogus},
        k \in KeepChoices,
        cnf \in BOOLEAN }

Nothing == [op |-> "none"]

\* A config as --select or --smart-add wrote it (both sort the list) with
\* naming_scheme, keep_history and create_new_file as the user set them;
\* tracked files that exist or not; no backup directory yet.
Init ==
    /\ cfg \in Configs
    /\ fs \in { f \in [Paths -> {Missing} \cup { [c |-> Written(p, 0), m |-> 0] : p \in Paths }] :
                  \A p \in Paths :
                     /\ Exists(f[p]) => f[p].c.by = p
                     /\ p \notin Range(cfg.files) => ~Exists(f[p]) }
    /\ dir = <<>>
    /\ now = 0
    /\ runs = 0
    /\ faults = 0
    /\ made = {}
    /\ tree = {}
    /\ gitignore = <<>>
    /\ last = Nothing

Done(end, a, rot) ==
    [op |-> "backup", exit |-> a.exit, end |-> end, count |-> a.count,
     events |-> a.events, rot |-> rot]

\* The copies of a run, from its events.
Copies(events) ==
    { [file |-> events[i].file, name |-> events[i].name, c |-> events[i].c] :
        i \in { j \in 1..Len(events) : events[j].kind = "copied" } }

\* create_backup with the rotation run whatever the count of copies is.
CreateBackupRotatesAlways ==
    /\ LoadConfig
    /\ runs < MaxRuns
    /\ runs' = runs + 1
    /\ UNCHANGED <<cfg, tree, gitignore>>
    /\ IF cfg.files = <<>>
       THEN /\ last' = [op |-> "backup", exit |-> 0, end |-> "nofiles", count |-> 0,
                        events |-> <<>>, rot |-> <<>>]
            /\ made' = {}
            /\ UNCHANGED <<fs, dir, now, faults>>
       ELSE \E a \in CopyLoop([fs |-> fs, dir |-> dir, count |-> 0, events |-> <<>>,
                               exit |-> 0, wrote |-> FALSE, faults |-> faults],
                              1, cfg, now) :
              /\ a.wrote => now < MaxTime
              /\ now' = IF a.wrote THEN now + 1 ELSE now
              /\ fs' = a.fs
              /\ made' = Copies(a.events)
              /\ IF a.exit # 0
                 THEN dir' = a.dir /\ faults' = a.faults /\ last' = Done("fatal", a, <<>>)
                 ELSE \E r \in CleanupOldBackups(a.dir, cfg, a.faults) :
                        /\ dir' = r.dir /\ faults' = r.faults
                        /\ last' = Done(IF a.count > 0 THEN "done" ELSE "nothing", a, r.rot)

\* verctrl --new
CreateBackup ==
    /\ LoadConfig
    /\ runs < MaxRuns
    /\ runs' = runs + 1
    /\ UNCHANGED <<cfg, tree, gitignore>>
    /\ IF cfg.files = <<>>
       THEN /\ last' = [op |-> "backup", exit |-> 0, end |-> "nofiles", count |-> 0,
                        events |-> <<>>, rot |-> <<>>]
            /\ made' = {}
            /\ UNCHANGED <<fs, dir, now, faults>>
       ELSE \E a \in CopyLoop([fs |-> fs, dir |-> dir, count |-> 0, events |-> <<>>,
                               exit |-> 0, wrote |-> FALSE, faults |-> faults],
                              1, cfg, now) :
              /\ a.wrote => now < MaxTime
              /\ now' = IF a.wrote THEN now + 1 ELSE now
              /\ fs' = a.fs
              /\ made' = Copies(a.events)
              /\ IF a.exit # 0
                 THEN dir' = a.dir /\ faults' = a.faults /\ last' = Done("fatal", a, <<>>)
                 ELSE IF a.count > 0
                 THEN \E r \in CleanupOldBackups(a.dir, cfg, a.faults) :
                        dir' = r.dir /\ faults' = r.faults /\ last' = Done("done", a, r.rot)
                 ELSE dir' = a.dir /\ faults' = a.faults /\ last' = Done("nothing", a, <<>>)

\* The tracked file restore_backup takes for the original of backup_name:
\* the first whose stem occurs in the name, or <<>> when there is none.
OriginalFile(name, files) ==
    LET hits == { i \in 1..Len(files) : Contains(name, Stem(files[i])) }
    IN IF hits = {} THEN <<>>
       ELSE files[CHOOSE i \in hits : \A j \in hits : i <= j]

Restored(name, original, answer, result) ==
    [op |-> "restore", name |-> name, original |-> original, answer |-> answer,
     result |-> result]

\* verctrl --restore name, with `target` typed at the "Enter target path"
\* prompt and `answer` at the "Overwrite existing file" prompt.
Restore(name) ==
    /\ LoadConfig
    /\ UNCHANGED <<cfg, dir, now, runs, made, tree, gitignore>>
    /\ IF name \notin DOMAIN dir
       THEN /\ last' = Restored(name, <<>>, NoAnswer, "notfound")
            /\ UNCHANGED <<fs, faults>>
       ELSE \E target \in IF OriginalFile(name, cfg.files) = <<>>
                          THEN Paths \cup {<<>>} ELSE {OriginalFile(name, cfg.files)} :
              IF target = <<>>
              THEN /\ last' = Restored(name, <<>>, NoAnswer, "cancelled")
                   /\ UNCHANGED <<fs, faults>>
              ELSE \E answer \in IF Exists(fs[target]) THEN Answers ELSE {NoAnswer} :
                     IF Exists(fs[target]) /\ Declines(answer)
                     THEN /\ last' = Restored(name, target, answer, "cancelled")
                          /\ UNCHANGED <<fs, faults>>
                     ELSE \/ /\ fs' = [fs EXCEPT ![target] =
                                                [c |-> dir[name].c, m |-> dir[name].m]]
                             /\ last' = Restored(name, target, answer, "restored")
                             /\ UNCHANGED faults
                          \/ /\ faults < MaxFaults
                             /\ faults' = faults + 1
                             /\ last' = Restored(name, target, answer, "failed")
                             /\ UNCHANGED fs

Initialised(answer, result) ==
    [op |-> "init", answer |-> answer, result |-> result]

\* init_config without the test of the response: the config file is
\* written whatever the user answers.
InitConfigWhateverAnswer ==
    /\ UNCHANGED <<fs, dir, now, runs, made, tree, gitignore>>
    /\ \E answer \in IF cfg # NoConfig THEN Answers ELSE {NoAnswer} :
         \/ /\ cfg' = DEFAULT_CONFIG
            /\ last' = Initialised(answer, IF Declines(answer) THEN "cancelled" ELSE "written")
            /\ UNCHANGED faults
         \/ /\ faults < MaxFaults
            /\ faults' = faults + 1
            /\ last' = Initialised(answer, "failed")
            /\ UNCHANGED cfg

\* verctrl --init, with `answer` typed at the "Overwrite?" prompt, which is
\* shown when there is a config file; opening the file for writing can fail.
InitConfig ==
    /\ UNCHANGED <<fs, dir, now, runs, made, tree, gitignore>>
    /\ \E answer \in IF cfg # NoConfig THEN Answers ELSE {NoAnswer} :
         IF cfg # NoConfig /\ Declines(answer)
         THEN /\ last' = Initialised(answer, "cancelled")
              /\ UNCHANGED <<cfg, faults>>
         ELSE \/ /\ cfg' = DEFAULT_CONFIG
                 /\ last' = Initialised(answer, "written")
                 /\ UNCHANGED faults
              \/ /\ faults < MaxFaults
                 /\ faults' = faults + 1
                 /\ last' = Initialised(answer, "failed")
                 /\ UNCHANGED cfg

\* The names given to --restore: each artifact present, and one name that
\* is not in the backup directory.
RestoreNames ==
    (DOMAIN dir) \cup { CHOOSE n \in AllNames : n \notin DOMAIN dir }

\* The user edits a tracked file: new content, new modification time.
Edit(p) ==
    /\ now < MaxTime
    /\ Exists(fs[p])
    /\ now' = now + 1
    /\ fs' = [fs EXCEPT ![p] = [c |-> Written(p, now + 1), m |-> now + 1]]
    /\ last' = Nothing
    /\ UNCHANGED <<cfg, dir, runs, faults, made, tree, gitignore>>

\* Time passes.
Tick ==
    /\ now < MaxTime
    /\ now' = now + 1
    /\ last' = Nothing
    /\ UNCHANGED <<cfg, fs, dir, runs, faults, made, tree, gitignore>>

Next ==
    \/ CreateBackup
    \/ \E name \in RestoreNames : Restore(name)
    \/ \E p \in Range(cfg.files) : Edit(p)
    \/ Tick

Spec == Init /\ [][Next]_vars

(***************************************************************************)
(* Properties of naming: get_backup_name.                                  *)
(***************************************************************************)
\* The events of the last run for which get_backup_name computed a name.
NamedEvents ==
    IF last.op = "backup"
    THEN { e \in Range(last.events) : e.kind \in {"copied", "failed"} }
    ELSE {}

\* The numbers N with an artifact named <stem>-v<N><suffix> among `names`.
VersionsNamed(p, names) ==
    { N \in 1..(MaxVer + 1) : Artifact(p, <<"v">> \o IntToStr(N)) \in names }

Max0(S) == IF S = {} THEN 0 ELSE CHOOSE x \in S : \A y \in S : y <= x

\* C1: under the version scheme the name computed for a tracked file is
\* <stem>-v<M+1><suffix>, M being the greatest N with an artifact named
\* <stem>-v<N><suffix> in the backup directory, and 0 when there is none,
\* however the directory is enumerated.
C1_VersionIsMaxPlusOne ==
    cfg.naming_scheme = "version" =>
        \A e \in NamedEvents :
            e.name = Artifact(e.file,
                              <<"v">> \o IntToStr(1 + Max0(VersionsNamed(e.file, e.present))))

\* The artifacts the scan of get_backup_name lists for p: glob <stem>-v*<suffix>.
Scanned(p, names) == { n \in names : FnMatch(n, VersionPattern(p)) }

Rotations == IF last.op = "backup" THEN Range(last.rot) ELSE {}

EndsWith(s, t) ==
    Len(t) <= Len(s) /\ SubSeq(s, Len(s) - Len(t) + 1, Len(s)) = t

\* n reads <stem>-<anything><suffix>
InFamily(n, p) ==
    /\ Len(n) >= Len(Stem(p)) + 1 + Len(Suffix(p))
    /\ StartsWith(n, Stem(p) \o <<"-">>)
    /\ EndsWith(n, Suffix(p))

\* The names a pass ranks after position k.
RankedAfter(r, k) == { r.backups[i].n : i \in { j \in 1..Len(r.backups) : j > k } }

\* A pass lists the artifacts of its file's family, newest first.
ListsFamily(r) ==
    /\ { r.backups[i].n : i \in 1..Len(r.backups) } =
           { n \in r.present : InFamily(n, r.file) }
    /\ \A i, j \in 1..Len(r.backups) : i < j => r.backups[i].m >= r.backups[j].m

AtMost(r, k) ==
    Cardinality(r.removed) <= (IF Len(r.backups) > k THEN Len(r.backups) - k ELSE 0)

\* C3 as stated: with keep_history = k > 0, a pass over the count artifacts
\* matching <stem>-*<suffix> deletes exactly those ranked after position k by
\* descending modification time, so at most max(0, count - k), and every
\* artifact it keeps is at least as new as every artifact it deletes.
C3_DeletesExactlyBeyondK ==
    \A r \in Rotations :
        /\ ListsFamily(r)
        /\ r.removed = RankedAfter(r, cfg.keep_history)
        /\ AtMost(r, cfg.keep_history)
        /\ \A i, j \in 1..Len(r.backups) :
              (r.backups[i].n \notin r.removed /\ r.backups[j].n \in r.removed)
                  => r.backups[i].m >= r.backups[j].m

\* C3: with keep_history = k > 0, a pass over the count artifacts matching
\* <stem>-*<suffix> unlinks exactly those ranked after position k by
\* descending modification time and deletes those whose unlink does not
\* fail, so at most max(0, count - k); each of the first k is kept and is at
\* least as new as every artifact deleted.
C3_UnlinksExactlyBeyondK ==
    \A r \in Rotations :
        /\ cfg.keep_history > 0
        /\ ListsFamily(r)
        /\ r.removed \cup r.failed = RankedAfter(r, cfg.keep_history)
        /\ r.removed \cap r.failed = {}
        /\ AtMost(r, cfg.keep_history)
        /\ \A i, j \in 1..Len(r.backups) :
              (i <= cfg.keep_history /\ r.backups[j].n \in r.removed)
                  => /\ r.backups[i].n \notin r.removed
                     /\ r.backups[i].m >= r.backups[j].m

\* A pass deleted an artifact older than one it kept.
C3_Witness ==
    \E r \in Rotations : \E i, j \in 1..Len(r.backups) :
        /\ r.backups[i].n \notin r.removed
        /\ r.backups[j].n \in r.removed
        /\ r.backups[i].m > r.backups[j].m

(***************************************************************************)
(* Properties of a run: create_backup.                                     *)
(***************************************************************************)
SomeTrackedFileExists == \E p \in Range(cfg.files) : Exists(fs[p])

\* C4 as stated: with an unknown naming_scheme, create_backup ends with a
\* fatal error (a non-zero exit) and copies no file, whatever the tracked
\* files are and whichever of them exist.
C4_UnknownSchemeIsFatal ==
    cfg.naming_scheme \notin Schemes =>
        /\ dir = <<>> /\ made = {}
        /\ last.op = "backup" => (last.exit # 0 /\ last.count = 0)

\* C4: with an unknown naming_scheme, create_backup copies no file; it ends
\* with a fatal error (a non-zero exit) when some tracked file exists, and
\* returns with a warning when the list is empty or no tracked file exists.
C4_UnknownSchemeIsFatalAtFirstFile ==
    cfg.naming_scheme \notin Schemes =>
        /\ dir = <<>> /\ made = {}
        /\ last.op = "backup" =>
              /\ last.count = 0
              /\ last.exit # 0 <=> SomeTrackedFileExists
              /\ last.exit = 0 => last.end \in {"nofiles", "nothing"}

\* A run with an unknown scheme skipped a missing file and then ended with
\* the fatal error at a file that exists.
C4_Witness ==
    /\ cfg.naming_scheme \notin Schemes
    /\ last.op = "backup" /\ last.exit # 0
    /\ \E e \in Range(last.events) : e.kind = "missing"

\* C5: create_backup and then restore_backup of the artifact that run made
\* for a tracked file F, the overwrite confirmed, leaves F with the content
\* it had when it was backed up, whatever it held in between.
C5_RoundTrip ==
    (last.op = "restore" /\ last.result = "restored") =>
        \A x \in made : x.name = last.name => fs[x.file].c = x.c

\* The events of the last run that end the iteration of a tracked file.
FileEvents(events) ==
    LET ends(e) == e.kind \in {"missing", "copied", "failed"}
    IN SelectSeq(events, ends)

\* C6: with create_new_file on, a run empties a tracked file only after that
\* file's copy succeeded in the same run; no file that was skipped as
\* missing or whose copy failed is changed.
C6_TruncateOnlyAfterCopy ==
    [][runs' # runs =>
          \A p \in Paths :
              fs'[p] # fs[p] =>
                  /\ cfg.create_new_file
                  /\ fs'[p].c = Empty
                  /\ \E i \in 1..(Len(last'.events) - 1) :
                        /\ last'.events[i].kind = "copied"
                        /\ last'.events[i].file = p
                        /\ last'.events[i].c = fs[p].c
                        /\ last'.events[i + 1].kind = "truncated"
                        /\ last'.events[i + 1].file = p]_vars

\* A run emptied a file it copied and left alone one it could not copy.
C6_Witness ==
    /\ last.op = "backup" /\ cfg.create_new_file
    /\ \E e \in Range(last.events) : e.kind = "truncated"
    /\ \E e \in Range(last.events) : e.kind \in {"missing", "failed"}

\* C7: a tracked file that is missing or whose copy fails is skipped and the
\* run goes on: every tracked file has its turn, each one that exists is
\* copied unless its copy fails, and the count reported is the number of
\* copies that succeeded.
C7_SkipsAndGoesOn ==
    (last.op = "backup" /\ cfg.naming_scheme \in Schemes /\ cfg.files # <<>>) =>
        LET turns == FileEvents(last.events)
        IN /\ last.exit = 0
           /\ Len(turns) = Len(cfg.files)
           /\ \A i \in 1..Len(turns) :
                 /\ turns[i].file = cfg.files[i]
                 /\ turns[i].kind = "missing" <=> ~Exists(fs[cfg.files[i]])
           /\ last.count = Cardinality({ i \in 1..Len(turns) : turns[i].kind = "copied" })
           /\ last.count = 0 <=> last.end = "nothing"
           /\ \A e \in Range(turns) :
                 e.kind = "copied" =>
                     e.name \in (DOMAIN dir) \cup UNION { r.removed : r \in Rotations }

\* A run copied a file after one it skipped or failed to copy.
C7_Witness ==
    /\ last.op = "backup"
    /\ \E i, j \in 1..Len(last.events) :
          /\ i < j
          /\ last.events[i].kind \in {"missing", "failed"}
          /\ last.events[j].kind = "copied"

\* C8: the artifacts of a tracked file with another name are not in the
\* retention of a tracked file: a pass for a file counts and deletes only
\* artifacts copied from a file of that name.
C8_FamiliesApart ==
    \A r \in Rotations : \A i \in 1..Len(r.backups) :
        PathName(r.backups[i].src) = PathName(r.file)

\* C9: with keep_history <= 0 no run of create_backup deletes a file of the
\* backup directory.
C9_NoRotation ==
    [][cfg.keep_history <= 0 => (DOMAIN dir) \subseteq (DOMAIN dir')]_vars

\* With keep_history <= 0, a run that copied left in place the artifacts it
\* found.
C9_Witness ==
    /\ cfg.keep_history <= 0
    /\ last.op = "backup" /\ last.count > 0
    /\ last.events[1].kind = "copied"
    /\ last.events[1].present # {}
    /\ last.events[1].present \subseteq DOMAIN dir

(***************************************************************************)
(* Detection: GitignoreParser and SmartFileDetector.detect_files.  Paths   *)
(* are relative to the root, which is the working directory.               *)
(***************************************************************************)
\* SmartFileDetector.DEFAULT_EXCLUDES
DEFAULT_EXCLUDES ==
    { <<".", "g", "i", "t">>, <<".", "s", "v", "n">>, <<".", "h", "g">>,
      <<".", "b", "z", "r">>,
      <<"n", "o", "d", "e", "_", "m", "o", "d", "u", "l", "e", "s">>,
      <<"b", "o", "w", "e", "r", "_", "c", "o", "m", "p", "o", "n", "e", "n", "t", "s">>,
      <<"v", "e", "n", "d", "o", "r">>,
      <<"_", "_", "p", "y", "c", "a", "c", "h", "e", "_", "_">>,
      <<"*", ".", "p", "y", "c">>, <<"*", ".", "p", "y", "o">>,
      <<"*", ".", "p", "y", "d">>, <<".", "P", "y", "t", "h", "o", "n">>,
      <<"v", "e", "n", "v">>, <<".", "v", "e", "n", "v">>,
      <<"e", "n", "v">>, <<".", "e", "n", "v">>, <<"E", "N", "V">>,
      <<"*", ".", "e", "g", "g", "-", "i", "n", "f", "o">>,
      <<"d", "i", "s", "t">>, <<"b", "u", "i", "l", "d">>,
      <<".", "p", "y", "t", "e", "s", "t", "_", "c", "a", "c", "h", "e">>,
      <<".", "i", "d", "e", "a">>, <<".", "v", "s", "c", "o", "d", "e">>,
      <<".", "v", "s">>, <<"*", ".", "s", "w", "p">>,
      <<"*", ".", "s", "w", "o">>, <<"*", "~">>,
      <<".", "D", "S", "_", "S", "t", "o", "r", "e">>,
      <<"T", "h", "u", "m", "b", "s", ".", "d", "b">>,
      <<"d", "e", "s", "k", "t", "o", "p", ".", "i", "n", "i">>,
      <<"*", ".", "o">>, <<"*", ".", "s", "o">>,
      <<"*", ".", "d", "y", "l", "i", "b">>, <<"*", ".", "d", "l", "l">>,
      <<"*", ".", "e", "x", "e">>, <<"*", ".", "l", "o", "g">>,
      <<"l", "o", "g", "s">>,
      <<".", "v", "e", "r", "c", "t", "r", "l", "_", "b", "a", "c", "k", "u", "p", "s">>,
      <<"*", ".", "b", "a", "k">>,
      <<"*", ".", "b", "a", "c", "k", "u", "p">>,
      <<"*", ".", "o", "l", "d">>, <<"t", "m", "p">>,
      <<"t", "e", "m", "p">>, <<".", "t", "m", "p">>,
      <<".", "c", "a", "c", "h", "e">> }

\* SmartFileDetector.SOURCE_EXTENSIONS
SOURCE_EXTENSIONS ==
    { <<".", "p", "y">>, <<".", "j", "s">>, <<".", "t", "s">>,
      <<".", "j", "s", "x">>, <<".", "t", "s", "x">>,
      <<".", "j", "a", "v", "a">>, <<".", "c">>, <<".", "c", "p", "p">>,
      <<".", "h">>, <<".", "h", "p", "p">>, <<".", "c", "s">>,
      <<".", "g", "o">>, <<".", "r", "s">>, <<".", "r", "b">>,
      <<".", "p", "h", "p">>, <<".", "s", "w", "i", "f", "t">>,
      <<".", "k", "t">>, <<".", "s", "c", "a", "l", "a">>,
      <<".", "h", "t", "m", "l">>, <<".", "c", "s", "s">>,
      <<".", "s", "c", "s", "s">>, <<".", "s", "a", "s", "s">>,
      <<".", "l", "e", "s", "s">>, <<".", "v", "u", "e">>,
      <<".", "s", "v", "e", "l", "t", "e">>, <<".", "j", "s", "o", "n">>,
      <<".", "y", "a", "m", "l">>, <<".", "y", "m", "l">>,
      <<".", "t", "o", "m", "l">>, <<".", "i", "n", "i">>,
      <<".", "c", "o", "n", "f">>, <<".", "c", "o", "n", "f", "i", "g">>,
      <<".", "m", "d">>, <<".", "r", "s", "t">>, <<".", "t", "x", "t">>,
      <<".", "a", "d", "o", "c">>, <<".", "s", "h">>,
      <<".", "b", "a", "s", "h">>, <<".", "z", "s", "h">>,
      <<".", "f", "i", "s", "h">>, <<".", "p", "s", "1">>,
      <<".", "b", "a", "t">>, <<".", "c", "m", "d">>,
      <<".", "s", "q", "l">>, <<".", "g", "r", "a", "p", "h", "q", "l">>,
      <<".", "p", "r", "o", "t", "o">> }

\* SmartFileDetector.BINARY_EXTENSIONS
BINARY_EXTENSIONS ==
    { <<".", "j", "p", "g">>, <<".", "j", "p", "e", "g">>,
      <<".", "p", "n", "g">>, <<".", "g", "i", "f">>,
      <<".", "b", "m", "p">>, <<".", "i", "c", "o">>,
      <<".", "s", "v", "g">>, <<".", "m", "p", "4">>,
      <<".", "a", "v", "i">>, <<".", "m", "o", "v">>,
      <<".", "w", "m", "v">>, <<".", "f", "l", "v">>,
      <<".", "m", "p", "3">>, <<".", "w", "a", "v">>,
      <<".", "o", "g", "g">>, <<".", "f", "l", "a", "c">>,
      <<".", "z", "i", "p">>, <<".", "t", "a", "r">>, <<".", "g", "z">>,
      <<".", "r", "a", "r">>, <<".", "7", "z">>, <<".", "p", "d", "f">>,
      <<".", "d", "o", "c">>, <<".", "d", "o", "c", "x">>,
      <<".", "x", "l", "s">>, <<".", "x", "l", "s", "x">>,
      <<".", "p", "p", "t">>, <<".", "p", "p", "t", "x">> }

\* web_exts of detect_files
WebExts ==
    { <<".", "h", "t", "m", "l">>, <<".", "c", "s", "s">>,
      <<".", "j", "s">>, <<".", "t", "s">>, <<".", "j", "s", "x">>,
      <<".", "t", "s", "x">>, <<".", "v", "u", "e">>,
      <<".", "s", "v", "e", "l", "t", "e">> }

\* Largest number of files in the tree under the root.
MaxTree == 3
\* Largest number of lines of .gitignore.
MaxLines == 2

\* The files the trees are made of: plain files, files whose name, suffix
\* or directory is in one of the tables, files in nested directories.
TreeFiles ==
    { <<"a", ".", "p", "y">>,
      <<"T", "h", "u", "m", "b", "s", ".", "d", "b">>,
      <<"x", ".", "l", "o", "g">>,
      <<"P", ".", "P", "N", "G">>,
      <<"b", "u", "i", "l", "d", "/", "a", ".", "p", "y">>,
      <<".", "c", "i", "/", "a", ".", "p", "y">>,
      <<"x", ".", "e", "g", "g", "-", "i", "n", "f", "o", "/", "a", ".", "p", "y">>,
      <<"s", "r", "c", "/", "l", "i", "b", "/", "a", ".", "m", "d">>,
      <<"s", "r", "c", "/", "a", ".", "j", "s">>,
      <<"R", "E", "A", "D", "M", "E">> }

\* The lines .gitignore is made of: patterns, a pattern with a trailing
\* slash, a negation, a comment.
IgnoreLines ==
    { <<"l", "i", "b">>,
      <<"l", "i", "b", "/">>,
      <<"s", "r", "c", "/", "*">>,
      <<"*", ".", "m", "d">>,
      <<"!", "a", ".", "m", "d">>,
      <<"#", "c">> }

GitignoreName == <<".", "g", "i", "t", "i", "g", "n", "o", "r", "e">>

\* The default config_path, relative to the working directory.
ConfigName == <<"v", "e", "r", "c", "t", "r", "l", ".", "j", "s", "o", "n">>

\* The files rglob('*') yields: .gitignore is one of them when it exists.
Walked == tree \cup (IF gitignore.exists THEN {GitignoreName} ELSE {})

AllFiles == TreeFiles \cup {GitignoreName, ConfigName} \cup Paths

\* The files rglob('*') yields when --smart-add runs: those of the tree, the
\* tracked files that exist and the config file, which is there by then.
\* The backup directory is not walked into: its name starts with a dot.
Root == Walked \cup {ConfigName} \cup { p \in Paths : Exists(fs[p]) }

\* Path.parts of a relative path
RECURSIVE Parts(_)
Parts(p) ==
    IF \E i \in 1..Len(p) : p[i] = "/"
    THEN LET i == CHOOSE j \in 1..Len(p) : p[j] = "/" /\ \A h \in 1..(j - 1) : p[h] # "/"
         IN <<SubSeq(p, 1, i - 1)>> \o Parts(Drop(p, i + 1))
    ELSE <<p>>

\* file_path.parents up to the root, the root left out
Parents(p) == { SubSeq(p, 1, i - 1) : i \in { j \in 1..Len(p) : p[j] = "/" } }

\* load_gitignore: the lines that are neither blank nor comments
LoadGitignore(g) ==
    LET pattern(line) == line # <<>> /\ line[1] # "#"
    IN IF g.exists THEN SelectSeq(g.lines, pattern) ELSE <<>>

\* is_ignored with a pattern matched against the relative path only.
IsIgnoredByPathOnly(path, isdir, patterns) ==
    \E k \in 1..Len(patterns) :
        LET pattern == patterns[k]
        IN /\ pattern[1] # "!"
           /\ IF pattern[Len(pattern)] = "/"
              THEN isdir /\ FnMatch(path \o <<"/">>, pattern)
              ELSE FnMatch(path, pattern)

\* is_ignored with negations honoured: a path that a "!" line matches is
\* not ignored.
IsIgnoredUnlessNegated(path, isdir, patterns) ==
    LET matches(pattern) ==
            IF pattern[Len(pattern)] = "/"
            THEN isdir /\ FnMatch(path \o <<"/">>, pattern)
            ELSE \/ FnMatch(path, pattern)
                 \/ FnMatch(PathName(path), pattern)
                 \/ \E i \in 1..Len(Parts(path)) : FnMatch(Parts(path)[i], pattern)
    IN /\ \E k \in 1..Len(patterns) :
             patterns[k][1] # "!" /\ matches(patterns[k])
       /\ ~\E k \in 1..Len(patterns) :
             /\ patterns[k][1] = "!" /\ Len(patterns[k]) > 1
             /\ matches(Tail(patterns[k]))

\* GitignoreParser.is_ignored
IsIgnored(path, isdir, patterns) ==
    \E k \in 1..Len(patterns) :
        LET pattern == patterns[k]
        IN /\ pattern[1] # "!"
           /\ IF pattern[Len(pattern)] = "/"
              THEN isdir /\ FnMatch(path \o <<"/">>, pattern)
              ELSE \/ FnMatch(path, pattern)
                   \/ FnMatch(PathName(path), pattern)
                   \/ \E i \in 1..Len(Parts(path)) : FnMatch(Parts(path)[i], pattern)

\* SmartFileDetector.should_exclude_dir
ShouldExcludeDir(d, patterns) ==
    \/ \E pattern \in DEFAULT_EXCLUDES :
          /\ pattern[1] # "*"
          /\ PathName(d) = pattern \/ PathName(d)[1] = "."
    \/ IsIgnored(d, TRUE, patterns)

\* SmartFileDetector.should_exclude_file
ShouldExcludeFile(f, patterns) ==
    \/ \E pattern \in DEFAULT_EXCLUDES :
          pattern[1] = "*" /\ FnMatch(PathName(f), pattern)
    \/ IsIgnored(f, FALSE, patterns)
    \/ Lower(Suffix(f)) \in BINARY_EXTENSIONS

\* SmartFileDetector.is_source_file
IsSourceFile(f) == Lower(Suffix(f)) \in SOURCE_EXTENSIONS

\* The age of a file whose modification time cannot be read stands for
\* float('inf'): it is within no number of days.
Unreadable == -1

\* The strategies of --smart-add.
Strategies == {"smart", "source", "recent", "python", "web", "all"}

\* The files of the trees that are eight days old.
OlderFiles ==
    { <<"a", ".", "p", "y">>,
      <<"b", "u", "i", "l", "d", "/", "a", ".", "p", "y">>,
      <<".", "g", "i", "t", "i", "g", "n", "o", "r", "e">>,
      <<"x", ".", "l", "o", "g">> }

\* The files of the trees whose modification time cannot be read.
UnreadableFiles ==
    { <<"P", ".", "P", "N", "G">>,
      <<"s", "r", "c", "/", "a", ".", "j", "s">> }

\* get_file_age_days: the age in days; the other files are a day old.
AgeDays ==
    [f \in AllFiles |->
        IF f \in UnreadableFiles THEN Unreadable
        ELSE IF f \in OlderFiles THEN 8 ELSE 1]

\* The branch of detect_files for the strategy.
Keeps(strategy, f, days) ==
    CASE strategy \in {"smart", "source"} -> IsSourceFile(f)
      [] strategy = "recent" -> AgeDays[f] # Unreadable /\ AgeDays[f] <= days
      [] strategy = "python" -> Suffix(f) = <<".", "p", "y">>
      [] strategy = "web" -> Lower(Suffix(f)) \in WebExts
      [] strategy = "all" -> TRUE

\* Path.__lt__: paths compare part by part.
RECURSIVE PartsLess(_, _)
PartsLess(a, b) ==
    IF b = <<>> THEN FALSE
    ELSE IF a = <<>> THEN TRUE
    ELSE IF a[1] # b[1] THEN StrLess(a[1], b[1])
    ELSE PartsLess(Tail(a), Tail(b))

\* sorted(detected)
RECURSIVE SortedPaths(_)
SortedPaths(S) ==
    IF S = {} THEN <<>>
    ELSE LET m == CHOOSE x \in S : \A y \in S \ {x} : PartsLess(Parts(x), Parts(y))
         IN <<m>> \o SortedPaths(S \ {m})

\* The default of --days.
DefaultDays == 30

DayChoices == {7, DefaultDays}

Gitignores ==
    { [exists |-> FALSE, lines |-> <<>>] }
    \cup { [exists |-> TRUE, lines |-> Sorted(L)] :
             L \in { K \in SUBSET IgnoreLines : Cardinality(K) <= MaxLines } }

\* The checks of the loop body of detect_files that do not depend on the
\* strategy: the file is not excluded and no directory above it is.
Passes(f, g) ==
    LET patterns == LoadGitignore(g)
    IN /\ ~ShouldExcludeFile(f, patterns)
       /\ \A d \in Parents(f) : ~ShouldExcludeDir(d, patterns)

\* For each .gitignore: the files that pass.
Passing == [g \in Gitignores |-> { f \in AllFiles : Passes(f, g) }]

\* For each strategy and number of days: the files it keeps.
Kept ==
    [strategy \in Strategies |-> [days \in DayChoices |->
        { f \in AllFiles : Keeps(strategy, f, days) }]]

\* The place of each file in the sorted list of all of them.
PathRank ==
    LET all == SortedPaths(AllFiles)
    IN [f \in AllFiles |-> CHOOSE i \in 1..Len(all) : all[i] = f]

\* sorted(detected), for files of the trees
RECURSIVE SortedFiles(_)
SortedFiles(S) ==
    IF S = {} THEN <<>>
    ELSE LET m == CHOOSE x \in S : \A y \in S : PathRank[x] <= PathRank[y]
         IN <<m>> \o SortedFiles(S \ {m})

\* detect_files over the files `walked`, with .gitignore g.
DetectFiles(walked, g, strategy, days) ==
    SortedFiles((walked \cap Passing[g]) \cap Kept[strategy][days])

\* A tree under the root with or without a .gitignore, the default config,
\* no backup made.
InitDetect ==
    /\ tree \in { T \in SUBSET TreeFiles : Cardinality(T) <= MaxTree }
    /\ gitignore \in Gitignores
    /\ cfg = DEFAULT_CONFIG
    /\ fs = [p \in Paths |-> Missing]
    /\ dir = <<>>
    /\ now = 0
    /\ runs = 0
    /\ faults = 0
    /\ made = {}
    /\ last = Nothing

\* SmartFileDetector(Path.cwd()).detect_files(strategy, days); the other
\* strategies do not read --days.
Detect ==
    /\ \E strategy \in Strategies :
         \E days \in IF strategy = "recent" THEN DayChoices ELSE {DefaultDays} :
              last' = [op |-> "detect", strategy |-> strategy, days |-> days,
                       files |-> DetectFiles(Walked, gitignore, strategy, days)]
    /\ UNCHANGED <<cfg, fs, dir, now, runs, faults, made, tree, gitignore>>

SmartAdded(answer, result, detected) ==
    [op |-> "smart_add", answer |-> answer, result |-> result,
     detected |-> detected]

\* smart_add with the list replaced by the detected files, as gui_select
\* replaces it by the selection.
SmartAddReplaces ==
    /\ UNCHANGED <<fs, dir, now, runs, faults, made, tree, gitignore>>
    /\ \E strategy \in Strategies :
         \E days \in IF strategy = "recent" THEN DayChoices ELSE {DefaultDays} :
           LET config == IF cfg = NoConfig THEN DEFAULT_CONFIG ELSE cfg
               detected == DetectFiles(Root, gitignore, strategy, days)
           IN IF detected = <<>>
              THEN /\ cfg' = config
                   /\ last' = SmartAdded(NoAnswer, "nothing", detected)
              ELSE \E answer \in Answers :
                     IF Declines(answer)
                     THEN /\ cfg' = config
                          /\ last' = SmartAdded(answer, "cancelled", detected)
                     ELSE /\ cfg' = [config EXCEPT !.files = Sorted(Range(detected))]
                          /\ last' = SmartAdded(answer, "added", detected)

\* verctrl --smart-add strategy --days days, with `answer` typed at the
\* "Add these files to tracking?" prompt.  Without a config file the
\* default one is written first; the list is written sorted as strings.
SmartAdd ==
    /\ UNCHANGED <<fs, dir, now, runs, faults, made, tree, gitignore>>
    /\ \E strategy \in Strategies :
         \E days \in IF strategy = "recent" THEN DayChoices ELSE {DefaultDays} :
           LET config == IF cfg = NoConfig THEN DEFAULT_CONFIG ELSE cfg
               detected == DetectFiles(Root, gitignore, strategy, days)
           IN IF detected = <<>>
              THEN /\ cfg' = config
                   /\ last' = SmartAdded(NoAnswer, "nothing", detected)
              ELSE \E answer \in Answers :
                     IF Declines(answer)
                     THEN /\ cfg' = config
                          /\ last' = SmartAdded(answer, "cancelled", detected)
                     ELSE /\ cfg' = [config EXCEPT
                                        !.files = Sorted(Range(@) \cup Range(detected))]
                          /\ last' = SmartAdded(answer, "added", detected)

NextDetect == Detect

SpecDetect == InitDetect /\ [][NextDetect]_vars

\* A tree under the root, with no .gitignore or one of at most one line, and
\* the default config as --init wrote it.
InitSmartAdd ==
    /\ InitDetect
    /\ Len(gitignore.lines) <= 1

NextSmartAdd == SmartAdd

\* Runs of --smart-add, one after the other, from the default config.
SpecSmartAdd == InitSmartAdd /\ [][NextSmartAdd]_vars

(***************************************************************************)
(* Properties of detection.                                                *)
(***************************************************************************)
\* A default-exclude entry matches the name, as a plain name or as a glob.
MatchesDefault(name) == \E pattern \in DEFAULT_EXCLUDES : FnMatch(name, pattern)

\* The file matches an exclusion rule: a default-exclude entry, a pattern of
\* the ignore file, a binary or media extension, or a directory above it
\* that a default-exclude entry or a pattern of the ignore file matches.
MatchesRule(f, g) ==
    LET patterns == LoadGitignore(g)
    IN \/ MatchesDefault(PathName(f))
       \/ IsIgnored(f, FALSE, patterns)
       \/ Lower(Suffix(f)) \in BINARY_EXTENSIONS
       \/ \E d \in Parents(f) :
             MatchesDefault(PathName(d)) \/ IsIgnored(d, TRUE, patterns)

\* C10: for every tree, detect_files with the strategy 'all' returns exactly
\* the files that match no exclusion rule: it returns no file that matches
\* one and leaves out no file that matches none.
C10_AllIsExactlyUnexcluded ==
    (last.op = "detect" /\ last.strategy = "all") =>
        Range(last.files) = { f \in Walked : ~MatchesRule(f, gitignore) }

\* A default-exclude entry or a pattern of the ignore file matches a
\* directory above the file.
UnderExcludedDir(f, g) ==
    \E d \in Parents(f) :
        MatchesDefault(PathName(d)) \/ IsIgnored(d, TRUE, LoadGitignore(g))

\* C11: whatever the strategy and however deep the file, detect_files
\* returns no file with a directory above it (below the root) that an
\* exclusion rule matches, be it a default-exclude entry or a pattern of the
\* ignore file.
C11_NothingUnderExcludedDir ==
    last.op = "detect" =>
        \A f \in Range(last.files) : ~UnderExcludedDir(f, gitignore)

\* C12: whatever the strategy, no file detect_files returns has a name that
\* a default-exclude entry matches, a plain name or a glob.
C12_NoDefaultExcludedName ==
    last.op = "detect" =>
        \A f \in Range(last.files) : ~MatchesDefault(PathName(f))

(***************************************************************************)
(* Properties of whole runs: create_backup, restore_backup, smart_add.     *)
(***************************************************************************)
\* C13: under the simple scheme, after any number of runs of create_backup,
\* a tracked file has its one artifact <stem>-old<suffix>, and the content
\* of that artifact is the content the file had when it was last copied.
C13_SimpleHoldsLatest ==
    cfg.naming_scheme = "simple" =>
        \A x \in made :
            LET name == Artifact(x.file, <<"o", "l", "d">>)
            IN name \in DOMAIN dir /\ dir[name].c = x.c

\* The artifacts that differ between two states of the backup directory.
Changed(d, e) ==
    { n \in (DOMAIN d) \cup (DOMAIN e) :
        n \notin DOMAIN d \/ n \notin DOMAIN e \/ d[n] # e[n] }

\* C14 as stated: a run in which no tracked file is backed up (the list is
\* empty, every file is missing, or every copy fails) ends normally with a
\* warning, does no rotation, and creates and deletes no artifact.
C14_NothingBackedUpIsNoOp ==
    [][(runs' # runs /\ last'.count = 0) =>
          /\ last'.exit = 0
          /\ last'.end \in {"nofiles", "nothing"}
          /\ last'.rot = <<>>
          /\ dir' = dir]_vars

\* C14, amended: a run in which no tracked file is backed up does no
\* rotation and deletes no artifact; the only artifacts it creates or
\* changes are those a failed copy left partly written under the name
\* computed for it; with a known naming scheme, or with no tracked file on
\* disk, it ends normally with a warning, and with an unknown scheme and a
\* tracked file on disk it ends with the fatal error.
C14_NothingBackedUpLeavesTornOnly ==
    [][(runs' # runs /\ last'.count = 0) =>
          /\ last'.rot = <<>>
          /\ (DOMAIN dir) \subseteq (DOMAIN dir')
          /\ \A n \in Changed(dir, dir') :
                \E e \in Range(last'.events) :
                    e.kind = "failed" /\ e.name = n /\ dir'[n].c = Torn(e.c)
          /\ IF cfg.naming_scheme \in Schemes \/ ~SomeTrackedFileExists
             THEN last'.exit = 0 /\ last'.end \in {"nofiles", "nothing"}
             ELSE last'.exit # 0 /\ last'.end = "fatal"]_vars

\* A run found artifacts, skipped a missing file, failed at its only copy
\* and ended with the warning.
C14_Witness ==
    /\ last.op = "backup" /\ last.end = "nothing" /\ cfg.keep_history > 0
    /\ \E e \in Range(last.events) : e.kind = "missing"
    /\ \E e \in Range(last.events) : e.kind = "failed" /\ e.present # {}

\* No path occurs twice in the list.
NoDuplicates(files) ==
    \A i, j \in 1..Len(files) : i # j => files[i] # files[j]

\* C15: a confirmed smart_add leaves the tracked-file list equal to the
\* union of the list before it and the detected paths, without duplicates
\* and with every path tracked before, in every sequence of smart_add runs
\* from the default config.
C15_ListIsUnion ==
    [][(last'.op = "smart_add" /\ last'.result = "added") =>
          /\ Range(cfg'.files) = Range(cfg.files) \cup Range(last'.detected)
          /\ Range(cfg.files) \subseteq Range(cfg'.files)
          /\ NoDuplicates(cfg'.files)]_vars

\* A confirmed smart_add detected several files and the list holds a path
\* tracked before that this run did not detect.
C15_Witness ==
    /\ last.op = "smart_add" /\ last.result = "added"
    /\ Len(last.detected) >= 2
    /\ Range(cfg.files) \ Range(last.detected) # {}
    /\ NoDuplicates(cfg.files)

(***************************************************************************)
(* The commands that ask before they write: --init, --smart-add and        *)
(* --restore, in a working directory where a backup run was made earlier.  *)
(***************************************************************************)
\* No config file, or one whose files were backed up under the version
\* scheme.
PromptConfigs ==
    {NoConfig}
    \cup { c \in Configs : c.naming_scheme = "version" /\ c.keep_history = 2
                           /\ ~c.create_new_file }

\* The backup directory after a run that copied the files S, each of them
\* written at time 0, to their first versions.
FirstVersions(S) ==
    [n \in { Artifact(p, <<"v", "1">>) : p \in S } |->
        LET p == CHOOSE q \in S : Artifact(q, <<"v", "1">>) = n
        IN CopyOf([c |-> Written(p, 0), m |-> 0], p)]

\* Files of the working directory edited at time 1, tracked or not, and the
\* first versions of some tracked files in the backup directory.
InitPrompt ==
    /\ cfg \in PromptConfigs
    /\ fs \in { f \in [Paths -> {Missing} \cup
                                { [c |-> Written(p, 1), m |-> 1] : p \in Paths }] :
                  \A p \in Paths : Exists(f[p]) => f[p].c.by = p }
    /\ dir \in { FirstVersions(S) :
                   S \in { T \in SUBSET Paths :
                             /\ cfg # NoConfig
                             /\ T \subseteq Range(cfg.files)
                             /\ \A p, q \in T : PathName(p) = PathName(q) => p = q } }
    /\ now = 1
    /\ runs = 0
    /\ faults = 0
    /\ made = {}
    /\ tree = {}
    /\ gitignore = [exists |-> FALSE, lines |-> <<>>]
    /\ last = Nothing

NextPrompt ==
    \/ InitConfig
    \/ SmartAdd
    \/ \E name \in RestoreNames : Restore(name)

SpecPrompt == InitPrompt /\ [][NextPrompt]_vars

\* The step is a command that showed its (y/N) prompt.
Prompted == last'.op \in {"init", "smart_add", "restore"} /\ last'.answer # NoAnswer

C17_RunKeepsItsBackup ==
    (last.op = "backup" /\ cfg.keep_history >= 1 /\ Len(cfg.files) = 1) =>
        \A x \in made : x.name \in DOMAIN dir

\* C18: with create_new_file on and keep_history >= 1, when a run ends,
\* every tracked file the run emptied has an artifact, copied from it, with
\* the content the file had just before it was emptied.
C18_EmptiedFileHasItsBackup ==
    (last.op = "backup" /\ cfg.create_new_file /\ cfg.keep_history >= 1) =>
        \A i \in 2..Len(last.events) :
            last.events[i].kind = "truncated" =>
                \E n \in DOMAIN dir :
                    /\ dir[n].src = last.events[i].file
                    /\ dir[n].c = last.events[i - 1].c

\* C19: within one run no two tracked files are copied to one artifact
\* name, under any scheme, also when they have the same file name in
\* different directories; so the count of the run is the number of
\* artifacts it wrote.
C19_DistinctFilesDistinctNames ==
    last.op = "backup" =>
        /\ \A x, y \in made : x.file # y.file => x.name # y.name
        /\ last.count = Cardinality({ x.name : x \in made })

\* C20: restore_backup of an artifact that was copied from the tracked file
\* F writes the content of the artifact to F and changes no other file,
\* whatever other files are tracked.
C20_RestoresOntoItsFile ==
    [][(last'.op = "restore" /\ last'.result = "restored") =>
          LET F == dir[last'.name].src
          IN /\ last'.original = F
             /\ fs'[F].c = dir[last'.name].c
             /\ \A p \in Paths \ {F} : fs'[p] = fs[p]]_vars

(***************************************************************************)
(* The selection window: ModernFileSelector and gui_select.  A run of      *)
(* --select is one step: the window opens, the user clicks, the window     *)
(* closes and gui_select writes the config or not.  PyQt6 is installed;    *)
(* the search box, which only hides rows, is left alone.                   *)
(***************************************************************************)
\* Largest number of clicks in the window before it is closed.
MaxClicks == 3

\* load_file_tree: the rows with a check box are the files that are not
\* excluded and have no excluded directory above them.
Shown == Root \cap Passing[gitignore]

\* selected_files is None
None == {}

\* selected_files is the list `files`
Some(files) == {files}

\* The window as __init__ leaves it: the tracked files are checked.
Selector(existing, shown) ==
    [checked |-> existing \cap shown, selected_files |-> None, open |-> TRUE,
     closed_by |-> "nobody"]

\* What the user can do in the window: tick or untick a row, the buttons
\* "Select All", "Deselect All", "Apply Detection" with a strategy chosen,
\* "Save Selection" with the reply to "Continue anyway?" should it be
\* asked, and "Cancel" (or closing the window).
Clicks(shown) ==
    { [on |-> "row", file |-> f] : f \in shown }
    \cup { [on |-> "select_all"], [on |-> "deselect_all"], [on |-> "cancel"] }
    \cup { [on |-> "apply", strategy |-> s] : s \in Strategies }
    \cup { [on |-> "save", reply |-> r] : r \in {"Yes", "No"} }

\* get_checked_files
GetCheckedFiles(s) == Sorted(s.checked)

\* save_selection
SaveSelection(s, reply) ==
    LET t == [s EXCEPT !.selected_files = Some(GetCheckedFiles(s))]
    IN IF s.checked = {} /\ reply = "No" THEN t
       ELSE [t EXCEPT !.open = FALSE, !.closed_by = "save"]

\* apply_smart_detection, the number of days left at its default
ApplySmartDetection(s, strategy, shown) ==
    LET detected == Range(DetectFiles(Root, gitignore, strategy, DefaultDays))
    IN [s EXCEPT !.checked = @ \cup (detected \cap shown)]

\* The slot the click is connected to.
Click(s, e, shown) ==
    CASE e.on = "row" ->
           [s EXCEPT !.checked = IF e.file \in @ THEN @ \ {e.file} ELSE @ \cup {e.file}]
      [] e.on = "select_all" -> [s EXCEPT !.checked = shown]
      [] e.on = "deselect_all" -> [s EXCEPT !.checked = {}]
      [] e.on = "apply" -> ApplySmartDetection(s, e.strategy, shown)
      [] e.on = "save" -> SaveSelection(s, e.reply)
      [] e.on = "cancel" -> [s EXCEPT !.open = FALSE, !.closed_by = "cancel"]

\* app.exec(): the windows as they are when closed, after at most n clicks.
RECURSIVE Exec(_, _, _)
Exec(s, n, shown) ==
    IF ~s.open THEN {s}
    ELSE IF n = 0 THEN {}
    ELSE UNION { Exec(Click(s, e, shown), n - 1, shown) : e \in Clicks(shown) }

Selected(closed_by, selected_files, result) ==
    [op |-> "select", closed_by |-> closed_by, selected_files |-> selected_files,
     result |-> result]

\* verctrl --select.  Without a config file the default one is written
\* first.
GuiSelect ==
    /\ UNCHANGED <<fs, dir, now, runs, faults, made, tree, gitignore>>
    /\ LET config == IF cfg = NoConfig THEN DEFAULT_CONFIG ELSE cfg
       IN \E selector \in Exec(Selector(Range(config.files), Shown), MaxClicks, Shown) :
            IF selector.selected_files # None
            THEN \E files \in selector.selected_files :
                   /\ cfg' = [config EXCEPT !.files = files]
                   /\ last' = Selected(selector.closed_by, selector.selected_files, "updated")
            ELSE /\ cfg' = config
                 /\ last' = Selected(selector.closed_by, selector.selected_files, "cancelled")

NextSelect == GuiSelect

\* Runs of --select in a working directory with files, tracked or not.
SpecSelect == InitPrompt /\ [][NextSelect]_vars

\* C21: the tracked-file list of the config is replaced only when the user
\* completes a save; when the window is closed without one (Cancel, also
\* after "Save Selection" with nothing checked and No to "Continue
\* anyway?"), gui_select reports the selection as cancelled and leaves the
\* config as it was.  Stated for a run that finds a config file.
C21_CancelLeavesConfig ==
    [][(last'.op = "select" /\ last'.closed_by = "cancel" /\ cfg # NoConfig) =>
          last'.result = "cancelled" /\ cfg' = cfg]_vars

(***************************************************************************)
(* Runs of create_backup with the naming scheme changed in between, in a   *)
(* working directory where an earlier run left first versions.             *)
(***************************************************************************)
\* The files these runs may track: one with a plain stem, one whose stem
\* holds a character class, and the file that class matches.
MixedFiles == SpecialPaths \cup { <<"a", ".", "t">> }

\* Configs with rotation on and one of the three schemes.
MixedConfigs ==
    { [files |-> Sorted(S), naming_scheme |-> sch, keep_history |-> k,
       create_new_file |-> FALSE] :
        S \in { T \in SUBSET MixedFiles : Cardinality(T) <= MaxFiles },
        sch \in Schemes,
        k \in {1, 2} }

\* Tracked files that exist or not, unchanged since an earlier run under
\* the version scheme copied some of them.
InitMixed ==
    /\ cfg \in MixedConfigs
    /\ fs \in { f \in [Trackable -> {Missing} \cup
                                    { [c |-> Written(p, 0), m |-> 0] : p \in Trackable }] :
                  \A p \in Trackable :
                     /\ Exists(f[p]) => f[p].c.by = p
                     /\ p \notin Range(cfg.files) => ~Exists(f[p]) }
    /\ dir \in { FirstVersions(S) :
                   S \in { T \in SUBSET Range(cfg.files) : \A p \in T : Exists(fs[p]) } }
    /\ now = 0
    /\ runs = 0
    /\ faults = 0
    /\ made = {}
    /\ tree = {}
    /\ gitignore = [exists |-> FALSE, lines |-> <<>>]
    /\ last = Nothing

\* The user sets naming_scheme in the config file to another scheme.
ChangeScheme(scheme) ==
    /\ LoadConfig
    /\ scheme # cfg.naming_scheme
    /\ cfg' = [cfg EXCEPT !.naming_scheme = scheme]
    /\ last' = Nothing
    /\ UNCHANGED <<fs, dir, now, runs, faults, made, tree, gitignore>>

NextMixed ==
    \/ CreateBackup
    \/ \E scheme \in Schemes : ChangeScheme(scheme)
    \/ \E p \in Range(cfg.files) : Edit(p)
    \/ Tick

SpecMixed == InitMixed /\ [][NextMixed]_vars

\* The artifacts among `names` whose name begins with <stem>- and ends with
\* <suffix>.
Own(p, names) == { n \in names : InFamily(n, p) }

\* C22: after a run that backed up a file, with keep_history = k > 0 and no
\* unlink failed, every tracked file has at most k artifacts named
\* <stem>-<anything><suffix> in the backup directory, the artifacts of all
\* naming schemes counted together.
C22_AtMostKPerFile ==
    (/\ last.op = "backup" /\ last.end = "done"
     /\ cfg.keep_history > 0
     /\ \A r \in Rotations : r.failed = {}) =>
        \A p \in Range(cfg.files) :
            Cardinality(Own(p, DOMAIN dir)) <= cfg.keep_history
\* The characters glob reads as part of a pattern.
GlobSpecial == {"[", "]", "*", "?"}

HasSpecial(s) == \E i \in 1..Len(s) : s[i] \in GlobSpecial

\* C23: under the version scheme, for a tracked file whose stem or suffix
\* holds glob-special characters the name computed is <stem>-v<M+1><suffix>,
\* M being the greatest N with an artifact literally named
\* <stem>-v<N><suffix> in the backup directory, and 0 when there is none.
C23_SpecialStemIsLiteral ==
    cfg.naming_scheme = "version" =>
        \A e \in NamedEvents :
            HasSpecial(Stem(e.file) \o Suffix(e.file)) =>
                e.name = Artifact(e.file,
                                  <<"v">> \o IntToStr(1 + Max0(VersionsNamed(e.file, e.present))))

\* The version numbers the copies S gave to the file p.
VersionsGiven(p, S) ==
    { N \in 1..(MaxVer + 1) :
        \E c \in S : c.file = p /\ c.name = Artifact(p, <<"v">> \o IntToStr(N)) }

\* C24: under the version scheme with keep_history >= 1, the version number
\* a run gives to the new artifact of a tracked file is greater than every
\* version number the run before gave to that file.
C24_VersionNeverReused ==
    [][(/\ runs' = runs + 1
        /\ cfg.naming_scheme = "version" /\ cfg.keep_history >= 1) =>
            \A p \in Range(cfg.files) :
                \A N \in VersionsGiven(p, made'), M \in VersionsGiven(p, made) : N > M]_vars

(***************************************************************************)
(* Properties of the ignore file: GitignoreParser.                         *)
(***************************************************************************)
\* A pattern that is not a negation and has no slash in it.
SingleSegment(pattern) ==
    pattern[1] # "!" /\ \A i \in 1..Len(pattern) : pattern[i] # "/"

\* The pattern matches the relative path x, its bare name or one of its
\* segments.
Hits(x, pattern) ==
    \/ FnMatch(x, pattern)
    \/ FnMatch(PathName(x), pattern)
    \/ \E i \in 1..Len(Parts(x)) : FnMatch(Parts(x)[i], pattern)

\* C25: a pattern of the ignore file that is not a negation and is a single
\* path segment excludes every file, and every directory with all the files
\* under it, whose relative path, bare name or one of whose segments it
\* matches, at any depth: detect_files returns none of them.
C25_SegmentPatternExcludes ==
    last.op = "detect" =>
        \A pattern \in Range(LoadGitignore(gitignore)) :
            SingleSegment(pattern) =>
                \A f \in Walked :
                    (Hits(f, pattern) \/ \E d \in Parents(f) : Hits(d, pattern)) =>
                        /\ f \notin Range(last.files)
                        /\ IsIgnored(f, FALSE, LoadGitignore(gitignore))
                        /\ \A d \in Parents(f) :
                              Hits(d, pattern) => IsIgnored(d, TRUE, LoadGitignore(gitignore))

\* A detection that returns a file and leaves out src/lib/a.md, whose
\* directory two levels down the pattern lib names.
C25_Witness ==
    /\ last.op = "detect" /\ last.strategy = "all" /\ last.files # <<>>
    /\ <<"l", "i", "b">> \in Range(LoadGitignore(gitignore))
    /\ <<"*", ".", "m", "d">> \notin Range(LoadGitignore(gitignore))
    /\ <<"s", "r", "c", "/", "l", "i", "b", "/", "a", ".", "m", "d">> \in Walked
    /\ <<"s", "r", "c", "/", "l", "i", "b", "/", "a", ".", "m", "d">> \notin Range(last.files)

(***************************************************************************)
(* Properties of rotation when an unlink fails.                            *)
(***************************************************************************)
\* C26: in cleanup_old_backups an unlink that fails does not end the pass:
\* there is a pass for every tracked file, in the order of the list, and
\* each deletes every artifact it ranks beyond keep_history but those
\* whose unlink failed; what it deleted is gone from the backup directory.
C26_FailureDoesNotAbort ==
    (last.op = "backup" /\ last.end = "done" /\ cfg.keep_history > 0) =>
        /\ Len(last.rot) = Len(cfg.files)
        /\ \A i \in 1..Len(last.rot) :
              LET r == last.rot[i]
              IN /\ r.file = cfg.files[i]
                 /\ r.removed = RankedAfter(r, cfg.keep_history) \ r.failed
                 /\ r.removed \cap DOMAIN dir = {}

\* An unlink failed in the pass of one tracked file, the same pass deleted
\* another artifact, and the pass of a later tracked file deleted one too.
C26_Witness ==
    /\ last.op = "backup" /\ last.end = "done" /\ cfg.keep_history > 0
    /\ \E i, j \in 1..Len(last.rot) :
          /\ i < j
          /\ last.rot[i].failed # {}
          /\ last.rot[i].removed # {}
          /\ last.rot[j].removed # {}
\* The ignore file with its "!" lines taken out.
WithoutNegations(g) ==
    LET kept(line) == line = <<>> \/ line[1] # "!"
    IN [exists |-> g.exists, lines |-> SelectSeq(g.lines, kept)]

\* C27: the lines of the ignore file that begin with "!" never affect
\* detection: for every tree, strategy and ignore file, detect_files
\* returns the list it returns with those lines removed.
C27_NegationsChangeNothing ==
    last.op = "detect" =>
        last.files = DetectFiles(Walked, WithoutNegations(gitignore),
                                 last.strategy, last.days)

\* A detection under an ignore file whose "!" line names a file of the
\* tree that another line of it ignores; other files are returned.
C27_Witness ==
    /\ last.op = "detect" /\ last.files # <<>>
    /\ <<"!", "a", ".", "m", "d">> \in Range(gitignore.lines)
    /\ WithoutNegations(gitignore).lines # <<>>
    /\ \E f \in Walked :
          /\ PathName(f) = <<"a", ".", "m", "d">>
          /\ IsIgnored(f, FALSE, LoadGitignore(gitignore))
          /\ f \notin Range(last.files)


=============================================================================
